---- MODULE Spec2Model ----
(***************************************************************************)
(* A model of mariusor/render: the Render service that compiles a          *)
(* directory of template files into one html/template set, renders a page  *)
(* (optionally inside a layout, through the yield/current/partial          *)
(* callbacks) into a pooled buffer, and writes it to the destination.      *)
(*                                                                         *)
(* The template engine (html/template) is modelled by what the calls the   *)
(* code makes do: a template set is one namespace of named templates with  *)
(* ONE function table shared by every template associated with it, New     *)
(* registers a name before Parse runs, Lookup finds every registered name, *)
(* ExecuteTemplate fails on an undefined or unparsed name.                 *)
(***************************************************************************)
EXTENDS Naturals, Sequences, FiniteSets, TLC

VARIABLES
    opt,              \* Render.opt: the Options after prepareOptions
    lock,             \* Render.lock: the lock chosen by prepareOptions, and who holds it
    templates,        \* Render.templates: 0 (nil) or the index of a set in heap
    compiledCharset,  \* Render.compiledCharset
    heap,             \* every template set allocated so far (template.New)
    files,            \* the template files' current contents (the FileSystem)
    pool,             \* the buffer pool: buffers taken and not yet returned
    pc,               \* each worker's position in the operation it runs
    loc,              \* each worker's locals (arguments, opt, templates, name, err)
    resp,             \* each worker's destination: what has been written to it
    budget,           \* operations that may still be started
    nrewrites,        \* file rewrites so far
    workers           \* how many goroutines call into the Render

vars == <<opt, lock, templates, compiledCharset, heap, files, pool, pc, loc, resp,
          budget, nrewrites, workers>>

----------------------------------------------------------------------------
(* Bounds *)

\* Goroutines that may call into one Render.
NumProcs == 2

\* Operations (HTML, CompileTemplates, TemplateLookup) started in one behaviour
\* of concurrent workers.
MaxCalls == 2

\* Operations started in one behaviour of a single worker.
MaxSeqCalls == 3

\* Rewrites of a template file in one behaviour.
MaxRewrites == 1

Procs == 1..NumProcs

----------------------------------------------------------------------------
(* Program constants *)

ContentHTML == "text/html"
defaultCharset == "UTF-8"
StatusOK == 200
StatusInternalServerError == 500

----------------------------------------------------------------------------
(* Paths.  A path is a sequence of characters, as fs.WalkDir hands it to    *)
(* the walk function.                                                       *)

RECURSIVE Str(_)
\* string(chars)
Str(cs) == IF cs = <<>> THEN "" ELSE cs[1] \o Str(Tail(cs))

RECURSIVE LastIndex(_, _)
\* The last position of character c in cs, 0 when absent.
LastIndex(cs, c) ==
    IF cs = <<>> THEN 0
    ELSE IF cs[Len(cs)] = c THEN Len(cs)
    ELSE LastIndex(SubSeq(cs, 1, Len(cs) - 1), c)

Contains(cs, c) == \E i \in 1..Len(cs) : cs[i] = c

\* filepath.Ext: the suffix beginning at the final dot in the final element.
Ext(cs) ==
    LET dot == LastIndex(cs, ".")
        sep == LastIndex(cs, "/")
    IN  IF dot > sep THEN SubSeq(cs, dot, Len(cs)) ELSE <<>>

\* filepath.Rel(dir, path) for a path the walk of dir produced.
Rel(dir, path) ==
    IF path = dir THEN <<".">>
    ELSE SubSeq(path, Len(dir) + 2, Len(path))

\* filepath.ToSlash: the separator is already '/' on the modelled platform.
ToSlash(cs) == cs

DirChars == <<"t", "e", "m", "p", "l", "a", "t", "e", "s">>
TmplExt == <<".", "t", "m", "p", "l">>

PathAbout  == DirChars \o <<"/", "a", "b", "o", "u", "t">> \o TmplExt
PathAdmin  == DirChars \o <<"/", "a", "d", "m", "i", "n">>
PathIndex  == PathAdmin \o <<"/", "i", "n", "d", "e", "x">> \o TmplExt
PathReadme == DirChars \o <<"/", "R", "E", "A", "D", "M", "E">>
PathHome   == DirChars \o <<"/", "h", "o", "m", "e">> \o TmplExt
PathLayout == DirChars \o <<"/", "l", "a", "y", "o", "u", "t">> \o TmplExt
PathNotes  == DirChars \o <<"/", "n", "o", "t", "e", "s", ".", "t", "x", "t">>

\* What fs.WalkDir visits, in its (lexical) order.
WalkEntries ==
    << [path |-> DirChars,   isDir |-> TRUE],
       [path |-> PathReadme, isDir |-> FALSE],
       [path |-> PathAbout,  isDir |-> FALSE],
       [path |-> PathAdmin,  isDir |-> TRUE],
       [path |-> PathIndex,  isDir |-> FALSE],
       [path |-> PathHome,   isDir |-> FALSE],
       [path |-> PathLayout, isDir |-> FALSE],
       [path |-> PathNotes,  isDir |-> FALSE] >>

FilePaths == {WalkEntries[i].path : i \in {j \in 1..Len(WalkEntries) : ~WalkEntries[j].isDir}}

----------------------------------------------------------------------------
(* Template sources.  A source text is what the engine's parser makes of    *)
(* it: invalid, or a body and the templates it defines.  A body is a        *)
(* sequence of nodes: text, the bound data, or a call of yield, current or  *)
(* partial.                                                                 *)

Text(s) == [k |-> "text", v |-> s]
Dot == [k |-> "dot", v |-> ""]
Yield == [k |-> "yield", v |-> ""]
Current == [k |-> "current", v |-> ""]
Partial(x) == [k |-> "partial", v |-> x]

NoDefines == [n \in {} |-> <<>>]

Source(version) ==
    CASE version = "about"  -> [valid |-> TRUE, body |-> <<Text("About "), Dot>>,
                                defines |-> NoDefines]
      [] version = "home1"  -> [valid |-> TRUE, body |-> <<Text("Hello "), Dot>>,
                                defines |-> [n \in {"footer-home"} |-> <<Text("END")>>]]
      [] version = "home2"  -> [valid |-> TRUE, body |-> <<Text("Howdy "), Dot>>,
                                defines |-> NoDefines]
      [] version = "layout" -> [valid |-> TRUE,
                                body |-> <<Text("<b>"), Yield, Text("</b>"),
                                           Partial("footer"), Partial("css"), Current>>,
                                defines |-> [n \in {"footer"} |-> <<Text("FOOT")>>]]
      [] version = "notes"  -> [valid |-> TRUE, body |-> <<Text("notes")>>,
                                defines |-> NoDefines]
      [] version = "index"  -> [valid |-> TRUE, body |-> <<Text("Admin "), Dot>>,
                                defines |-> NoDefines]
      [] OTHER              -> [valid |-> FALSE, body |-> <<>>, defines |-> NoDefines]

\* The contents a file may be given.
Versions(path) ==
    IF path = PathAbout THEN {"about"}
    ELSE IF path = PathHome THEN {"home1", "home2", "bad"}
    ELSE IF path = PathLayout THEN {"layout"}
    ELSE IF path = PathIndex THEN {"index"}
    ELSE {"notes"}

InitialFiles ==
    [p \in FilePaths |->
        IF p = PathAbout THEN "about"
        ELSE IF p = PathHome THEN "home1"
        ELSE IF p = PathLayout THEN "layout"
        ELSE IF p = PathIndex THEN "index"
        ELSE "notes"]

----------------------------------------------------------------------------
(* Function maps (template.FuncMap): a function from names to function      *)
(* values.  A function value records which function it is and, for the      *)
(* layout callbacks, the page name and the data the closure captured.       *)

FuncVal(impl, name, binding) == [impl |-> impl, name |-> name, binding |-> binding]

EmptyFuncMap == [n \in {} |-> FuncVal("", "", "")]

\* The map with the keys of both; b's value wins (Go's addFuncs / range-assign).
MergeFuncs(a, b) ==
    [n \in DOMAIN a \cup DOMAIN b |-> IF n \in DOMAIN b THEN b[n] ELSE a[n]]

RECURSIVE MergeAll(_)
\* prepareHTMLOptions' first loop: every map of a list folded into one.
MergeAll(list) ==
    IF list = <<>> THEN EmptyFuncMap
    ELSE MergeFuncs(MergeAll(SubSeq(list, 1, Len(list) - 1)), list[Len(list)])

\* helperFuncs: the placeholders a template that calls yield, partial or
\* current parses against; they are what runs when no layout was registered.
helperFuncs ==
    [n \in {"yield", "partial", "current"} |-> FuncVal("helper", "", "")]

\* A helper function map an application passes in Options.Funcs or
\* HTMLOptions.Funcs.
BaseFuncMap == [n \in {"upper"} |-> FuncVal("base", "", "")]
CallFuncMap == [n \in {"upper"} |-> FuncVal("call", "", "")]

----------------------------------------------------------------------------
(* Template sets (html/template).                                           *)

Unparsed == [tree |-> <<>>, complete |-> FALSE]
Parsed(tree) == [tree |-> tree, complete |-> TRUE]

\* template.New(dir): a fresh namespace holding the (unparsed) root template.
\* (failed is not a field of the engine: it records that a compile pass into
\* this set stopped at an error.)
TemplateNew(dir) ==
    [tmpl   |-> [n \in {dir} |-> Unparsed],
     funcs  |-> EmptyFuncMap,
     failed |-> FALSE]

\* t.New(name): the name is registered in the set, unparsed.
AssociateNew(ts, name) ==
    [ts EXCEPT !.tmpl = [n \in DOMAIN ts.tmpl \cup {name} |->
                            IF n = name THEN Unparsed ELSE ts.tmpl[n]]]

\* tmpl.Parse(text) on the template called name, for a text that parses:
\* the body becomes name's tree and every {{define}} adds its template.
ParseInto(ts, name, src) ==
    [ts EXCEPT !.tmpl = [n \in DOMAIN ts.tmpl \cup {name} \cup DOMAIN src.defines |->
                            IF n = name THEN Parsed(src.body)
                            ELSE IF n \in DOMAIN src.defines THEN Parsed(src.defines[n])
                            ELSE ts.tmpl[n]]]

\* t.Funcs(funcMap): adds to the function table, which text/template keeps in
\* the state common to all the templates of the set.
Funcs(ts, fm) == [ts EXCEPT !.funcs = MergeFuncs(ts.funcs, fm)]

\* t.Lookup(name) # nil
Lookup(ts, name) == name \in DOMAIN ts.tmpl

----------------------------------------------------------------------------
(* Errors *)

NoErr == [kind |-> "nil", name |-> ""]
ErrParse(name) == [kind |-> "parse", name |-> name]
ErrUndefined(name) == [kind |-> "undefined", name |-> name]
ErrIncomplete(name) == [kind |-> "incomplete", name |-> name]
ErrNoLayout(fn) == [kind |-> "nolayout", name |-> fn]
ErrNilPointer == [kind |-> "panic", name |-> "nil pointer dereference"]

----------------------------------------------------------------------------
(* Execution.  A result is the output written (a sequence of strings), the  *)
(* error, and the partial calls made on the way (what each resolved to).    *)

Result(out, err, plog) == [out |-> out, err |-> err, plog |-> plog]

\* fmt.Sprintf("%s-%s", partialName, name)
FullPartialName(partialName, name) == partialName \o "-" \o name

\* PartialTarget with the fallback to the bare name taken whatever the option.
PartialTarget_AlwaysFallback(ts, o, name, partialName) ==
    IF ~Lookup(ts, FullPartialName(partialName, name))
    THEN partialName
    ELSE FullPartialName(partialName, name)

\* The name the partial callback settles on (part_000 lines 221-224).
PartialTarget(ts, o, name, partialName) ==
    IF ~Lookup(ts, FullPartialName(partialName, name)) /\ o.RenderPartialsWithoutPrefix
    THEN partialName
    ELSE FullPartialName(partialName, name)

\* PartialExecutes with RequirePartials ignored.
PartialExecutes_FoundOnly(ts, o, target) == Lookup(ts, target)

\* Whether the partial callback executes the name it settled on (line 225).
PartialExecutes(ts, o, target) == o.RequirePartials \/ Lookup(ts, target)

RECURSIVE ExecuteTemplate(_, _, _, _)
RECURSIVE ExecNodes(_, _, _, _, _)

\* Render.execute: a fresh buffer, ExecuteTemplate into it.
execute(ts, name, binding, o) == ExecuteTemplate(ts, name, binding, o)

\* The yield callback of layoutFuncs (lines 212-216), or helperFuncs' one.
CallYield(ts, o) ==
    LET f == ts.funcs["yield"]
    IN  IF f.impl = "layout"
        THEN LET r == execute(ts, f.name, f.binding, o)
             IN  Result(IF r.err = NoErr THEN r.out ELSE <<>>, r.err, r.plog)
        ELSE Result(<<>>, ErrNoLayout("yield"), <<>>)

\* The current callback (lines 217-219), or helperFuncs' one.
CallCurrent(ts) ==
    LET f == ts.funcs["current"]
    IN  IF f.impl = "layout" THEN Result(<<f.name>>, NoErr, <<>>)
        ELSE Result(<<>>, NoErr, <<>>)

\* The partial callback (lines 220-231), or helperFuncs' one.
CallPartial(ts, o, partialName) ==
    LET f == ts.funcs["partial"]
    IN  IF f.impl = "layout"
        THEN LET target == PartialTarget(ts, o, f.name, partialName)
             IN  IF PartialExecutes(ts, o, target)
                 THEN LET r == execute(ts, target, f.binding, o)
                          entry == [partial |-> partialName, page |-> f.name,
                                    executed |-> target, err |-> r.err, out |-> r.out]
                      IN  Result(IF r.err = NoErr THEN r.out ELSE <<>>, r.err,
                                 <<entry>> \o r.plog)
                 ELSE Result(<<>>, NoErr,
                             << [partial |-> partialName, page |-> f.name,
                                 executed |-> "", err |-> NoErr, out |-> <<>>] >>)
        ELSE Result(<<>>, ErrNoLayout("partial"), <<>>)

ExecNode(ts, node, binding, o) ==
    CASE node.k = "text"    -> Result(<<node.v>>, NoErr, <<>>)
      [] node.k = "dot"     -> Result(<<binding>>, NoErr, <<>>)
      [] node.k = "yield"   -> CallYield(ts, o)
      [] node.k = "current" -> CallCurrent(ts)
      [] node.k = "partial" -> CallPartial(ts, o, node.v)

\* The nodes of a tree from the i-th on; execution stops at the first error,
\* with what was written before it left in the buffer.
ExecNodes(ts, tree, i, binding, o) ==
    IF i > Len(tree) THEN Result(<<>>, NoErr, <<>>)
    ELSE LET r == ExecNode(ts, tree[i], binding, o)
         IN  IF r.err # NoErr THEN r
             ELSE LET rest == ExecNodes(ts, tree, i + 1, binding, o)
                  IN  Result(r.out \o rest.out, rest.err, r.plog \o rest.plog)

\* t.ExecuteTemplate(buf, name, binding)
ExecuteTemplate(ts, name, binding, o) ==
    IF ~Lookup(ts, name) THEN Result(<<>>, ErrUndefined(name), <<>>)
    ELSE IF ~ts.tmpl[name].complete THEN Result(<<>>, ErrIncomplete(name), <<>>)
    ELSE ExecNodes(ts, ts.tmpl[name].tree, 1, binding, o)

\* layoutFuncs(templates, name, binding): the three callbacks, closed over
\* the page name and the data of the call that builds them.
layoutFuncs(name, binding) ==
    [n \in {"yield", "current", "partial"} |-> FuncVal("layout", name, binding)]

----------------------------------------------------------------------------
(* Options and construction (New, prepareOptions).                          *)

\* The zero Options value: what New() is given when the caller sets nothing.
ZeroOptions ==
    [Directory |-> <<>>, Layout |-> "", Extensions |-> <<>>, Funcs |-> <<>>,
     Charset |-> "", DisableCharset |-> FALSE, HTMLContentType |-> "",
     IsDevelopment |-> FALSE, UseMutexLock |-> FALSE, RequirePartials |-> FALSE,
     DisableHTTPErrorRendering |-> FALSE, RenderPartialsWithoutPrefix |-> FALSE]

\* prepareOptions, lines 113-130: the defaults filled in.
prepareOptions(o) ==
    [o EXCEPT !.Charset = IF o.Charset = "" THEN defaultCharset ELSE @,
              !.Directory = IF Len(o.Directory) = 0 THEN DirChars ELSE @,
              !.Extensions = IF Len(o.Extensions) = 0 THEN <<TmplExt>> ELSE @,
              !.HTMLContentType = IF o.HTMLContentType = "" THEN ContentHTML ELSE @]

\* prepareCharset with DisableCharset ignored.
prepareCharset_Always(o) == "; charset=" \o prepareOptions(o).Charset

\* prepareOptions, lines 116-118: Render.compiledCharset.
prepareCharset(o) ==
    IF ~o.DisableCharset THEN "; charset=" \o prepareOptions(o).Charset ELSE ""

\* prepareLock with development mode not forcing the real lock.
prepareLock_OverrideOnly(o) ==
    IF o.UseMutexLock THEN "RWMutex" ELSE "emptyLock"

\* prepareOptions, lines 134-138: which lock the Render gets.
prepareLock(o) ==
    IF o.IsDevelopment \/ o.UseMutexLock THEN "RWMutex" ELSE "emptyLock"

----------------------------------------------------------------------------
(* The lock (rwLock): sync.RWMutex, or emptyLock whose methods do nothing.  *)

NewLock(kind) == [kind |-> kind, writer |-> 0, readers |-> [p \in Procs |-> 0]]

CanRLock(l) == l.kind = "emptyLock" \/ l.writer = 0
CanLock(l) == l.kind = "emptyLock" \/ (l.writer = 0 /\ \A q \in Procs : l.readers[q] = 0)

RLock(l, p) == IF l.kind = "emptyLock" THEN l ELSE [l EXCEPT !.readers[p] = @ + 1]
RUnlock(l, p) == IF l.kind = "emptyLock" THEN l ELSE [l EXCEPT !.readers[p] = @ - 1]
Lock(l, p) == IF l.kind = "emptyLock" THEN l ELSE [l EXCEPT !.writer = p]
Unlock(l, p) == IF l.kind = "emptyLock" THEN l ELSE [l EXCEPT !.writer = 0]

----------------------------------------------------------------------------
(* Per-call values.                                                         *)

\* No HTMLOptions argument, and the HTMLOptions values a caller passes.
NoHTMLOptions == [given |-> FALSE, Layout |-> "", Funcs |-> EmptyFuncMap]
HTMLOptionsArg(layout, funcs) == [given |-> TRUE, Layout |-> layout, Funcs |-> funcs]

\* prepareHTMLOptions, lines 235-260: the call's effective layout and functions.
prepareHTMLOptions(o, htmlOpt) ==
    [Layout |-> IF htmlOpt.given /\ htmlOpt.Layout # "" THEN htmlOpt.Layout ELSE o.Layout,
     Funcs  |-> IF htmlOpt.given THEN MergeFuncs(MergeAll(o.Funcs), htmlOpt.Funcs)
                ELSE MergeAll(o.Funcs)]

NoExec == Result(<<>>, NoErr, <<>>)

\* A worker's locals when it runs nothing.
IdleLoc ==
    [op |-> "", name |-> "", binding |-> "", status |-> 0, w |-> "",
     htmlOpt |-> NoHTMLOptions, o |-> [Layout |-> "", Funcs |-> EmptyFuncMap],
     templates |-> 0, ename |-> "", walk |-> 0, err |-> NoErr,
     exec |-> NoExec, executed |-> FALSE, gets |-> 0, puts |-> 0,
     found |-> FALSE, ret |-> NoErr, cb |-> FuncVal("", "", ""), expected |-> <<>>,
     setsAtStart |-> 0, compiled |-> 0]

\* What a destination has received: header sets, WriteHeader calls, writes.
EvHeader(ctype) == [ev |-> "header", s |-> ctype, n |-> 0, out |-> <<>>]
EvStatus(code) == [ev |-> "status", s |-> "", n |-> code, out |-> <<>>]
EvBody(out) == [ev |-> "body", s |-> "", n |-> 0, out |-> out]
EvErrorText(err) == [ev |-> "error", s |-> err.kind, n |-> 0, out |-> <<err.name>>]

\* http.Error(w, err.Error(), 500): its headers, the status, the error text.
HttpError(err, code) ==
    <<EvHeader("text/plain; charset=utf-8"), EvStatus(code), EvErrorText(err)>>

\* Head.Write (part_001 lines 31-34).
HeadWrite(ctype, status) == <<EvHeader(ctype), EvStatus(status)>>

----------------------------------------------------------------------------
(* compileTemplatesFromDir's walk function (lines 160-193).                 *)

WalkResult(ts, err) == [ts |-> ts, err |-> err]

\* TemplateName with the extension left in the name.
TemplateName_KeepExtension(rel, ext) == Str(ToSlash(rel))

\* Lines 183-184: the template's name, the relative path without its
\* extension.
TemplateName(rel, ext) == Str(ToSlash(SubSeq(rel, 1, Len(rel) - Len(ext))))

RECURSIVE ForExtensions(_, _, _, _, _, _)
\* The loop over Options.Extensions (lines 175-191) for one file: each
\* extension equal to the file's registers the name and parses the file;
\* a Parse error breaks out of the loop and is returned.
ForExtensions(ts, exts, i, ext, rel, version) ==
    IF i > Len(exts) THEN WalkResult(ts, NoErr)
    ELSE IF ext = exts[i]
         THEN LET name == TemplateName(rel, ext)
                  tmpl == AssociateNew(ts, name)
                  src  == Source(version)
              IN  IF ~src.valid THEN WalkResult(tmpl, ErrParse(name))
                  ELSE ForExtensions(ParseInto(tmpl, name, src), exts, i + 1,
                                     ext, rel, version)
         ELSE ForExtensions(ts, exts, i + 1, ext, rel, version)

\* The walk function on one entry.
walkFn(ts, o, fsys, entry) ==
    IF entry.isDir THEN WalkResult(ts, NoErr)
    ELSE LET rel == Rel(o.Directory, entry.path)
             ext == IF Contains(rel, ".") THEN Ext(rel) ELSE <<>>
         IN  ForExtensions(ts, o.Extensions, 1, ext, rel, fsys[entry.path])

\* Whether the walk function reads and parses the entry.
Matches(o, entry) ==
    /\ ~entry.isDir
    /\ LET rel == Rel(o.Directory, entry.path)
           ext == IF Contains(rel, ".") THEN Ext(rel) ELSE <<>>
       IN  \E i \in 1..Len(o.Extensions) : o.Extensions[i] = ext

\* The first entry from the i-th on that the walk parses, 0 when none is left.
NextMatch(o, i) ==
    LET later == {j \in i..Len(WalkEntries) : Matches(o, WalkEntries[j])}
    IN  IF later = {} THEN 0 ELSE CHOOSE j \in later : \A k \in later : j <= k

RECURSIVE RegisterAll(_, _)
\* Lines 154-156: every map of Options.Funcs registered on the set, in order.
RegisterAll(ts, list) ==
    IF list = <<>> THEN ts
    ELSE RegisterAll(Funcs(ts, Head(list)), Tail(list))

----------------------------------------------------------------------------
(* The inputs of the calls.                                                 *)

PageNames == {"home", "about", "nope"}
LookupNames == {"home", "about", "layout"}
Bindings == {"World", "Gopher"}
Writers == {"ResponseWriter", "Writer"}
HTMLOptionsArgs ==
    {NoHTMLOptions, HTMLOptionsArg("layout", EmptyFuncMap), HTMLOptionsArg("", CallFuncMap)}

----------------------------------------------------------------------------
(* Actions.                                                                 *)

\* No worker is handing a result back: an operation's return is not delayed.
Running == \A q \in Procs : pc[q] # "done"

Idle(p) == pc[p] = "idle" /\ p <= workers /\ budget > 0 /\ Running

\* A set no pointer leads to any more, as the garbage collector leaves it.
Collected == [tmpl |-> [n \in {} |-> Unparsed], funcs |-> EmptyFuncMap, failed |-> FALSE]

\* The heap once the sets that neither the Render (t) nor a worker's local
\* variable (l) points to are collected.
Collect(h, t, l) ==
    [i \in 1..Len(h) |->
        IF i = t \/ \E q \in Procs : l[q].templates = i THEN h[i] ELSE Collected]

\* A worker's operation ends with ret; its results stay until Return.
Ended(l, ret) == [l EXCEPT !.ret = ret]

\* HTML is called: prepareHTMLOptions (line 273).  The arguments w, name and
\* binding are drawn where the code first reads them (lines 298 and 317).
HTMLStart(p, htmlOpt) ==
    /\ Idle(p)
    /\ loc' = [loc EXCEPT ![p] =
                 [IdleLoc EXCEPT !.op = "HTML", !.status = StatusOK, !.htmlOpt = htmlOpt,
                                 !.o = prepareHTMLOptions(opt, htmlOpt),
                                 !.setsAtStart = Len(heap)]]
    /\ pc' = [pc EXCEPT ![p] = "discard"]
    /\ budget' = budget - 1
    /\ UNCHANGED <<opt, lock, templates, compiledCharset, heap, files, pool, resp,
                   nrewrites, workers>>

\* AfterDiscard with the held set kept in development mode.
AfterDiscard_Keep(o, t) == t

\* AfterDiscard with the held set dropped in every mode.
AfterDiscard_Always(o, t) == 0

\* Render.templates after lines 276-278.
AfterDiscard(o, t) == IF o.IsDevelopment THEN 0 ELSE t

\* Lines 276-278: development mode drops the held set.
HTMLDiscard(p) ==
    /\ pc[p] = "discard" /\ Running
    /\ templates' = AfterDiscard(opt, templates)
    /\ heap' = Collect(heap, templates', loc)
    /\ pc' = [pc EXCEPT ![p] = "check"]
    /\ UNCHANGED <<opt, lock, compiledCharset, files, pool, loc, resp,
                   budget, nrewrites, workers>>

\* Lines 280-282: RLock; with no set held, RUnlock and go on to compile,
\* else keep the read lock and go on to line 292.
HTMLCheck(p) ==
    /\ pc[p] = "check" /\ Running
    /\ CanRLock(lock)
    /\ IF templates = 0
       THEN /\ lock' = RUnlock(RLock(lock, p), p)
            /\ pc' = [pc EXCEPT ![p] = "append"]
       ELSE /\ lock' = RLock(lock, p)
            /\ pc' = [pc EXCEPT ![p] = "take"]
    /\ UNCHANGED <<opt, templates, compiledCharset, heap, files, pool, loc, resp,
                   budget, nrewrites, workers>>

\* Lines 284-286: the call's functions appended to Options.Funcs.
HTMLAppend(p) ==
    /\ pc[p] = "append" /\ Running
    /\ opt' = IF DOMAIN loc[p].o.Funcs # {}
              THEN [opt EXCEPT !.Funcs = Append(@, loc[p].o.Funcs)]
              ELSE opt
    /\ pc' = [pc EXCEPT ![p] = "new"]
    /\ UNCHANGED <<lock, templates, compiledCharset, heap, files, pool, loc, resp,
                   budget, nrewrites, workers>>

\* CompileTemplates is called.
CompileStart(p) ==
    /\ Idle(p)
    /\ loc' = [loc EXCEPT ![p] = [IdleLoc EXCEPT !.op = "CompileTemplates",
                                                 !.setsAtStart = Len(heap)]]
    /\ pc' = [pc EXCEPT ![p] = "new"]
    /\ budget' = budget - 1
    /\ UNCHANGED <<opt, lock, templates, compiledCharset, heap, files, pool, resp,
                   nrewrites, workers>>

\* Lines 146-148: a fresh, empty set is installed in the Render.
CompileNew(p) ==
    /\ pc[p] = "new" /\ Running
    /\ templates' = Len(heap) + 1
    /\ heap' = Collect(Append(heap, TemplateNew(Str(opt.Directory))), templates', loc)
    /\ loc' = [loc EXCEPT ![p].compiled = Len(heap) + 1]
    /\ pc' = [pc EXCEPT ![p] = "lock"]
    /\ UNCHANGED <<opt, lock, compiledCharset, files, pool, resp, budget, nrewrites,
                   workers>>

\* How a compile pass ends (the deferred Unlock has run): CompileTemplates
\* returns err; HTML returns a non-nil err (line 288) and else goes on to
\* line 290.  HTML returns at line 288 without having touched w, whichever
\* destination it was given.
CompileEnds(p, err) ==
    IF loc[p].op = "HTML" /\ err = NoErr
    THEN /\ pc' = [pc EXCEPT ![p] = "rlock"]
         /\ loc' = loc
    ELSE IF loc[p].op = "HTML"
    THEN /\ pc' = [pc EXCEPT ![p] = "done"]
         /\ \E w \in Writers :
               loc' = [loc EXCEPT ![p] = Ended([@ EXCEPT !.w = w], err)]
    ELSE /\ pc' = [pc EXCEPT ![p] = "done"]
         /\ loc' = [loc EXCEPT ![p] = Ended(@, err)]

\* Lines 150-157: Lock, then the function maps registered on the set the
\* Render holds now.
CompileLock(p) ==
    /\ pc[p] = "lock" /\ Running
    /\ CanLock(lock)
    /\ IF templates = 0
       THEN /\ lock' = Unlock(Lock(lock, p), p)
            /\ heap' = heap
            /\ pc' = [pc EXCEPT ![p] = "done"]
            /\ loc' = [loc EXCEPT ![p] = Ended(@, ErrNilPointer)]
       ELSE /\ lock' = Lock(lock, p)
            /\ heap' = [heap EXCEPT ![templates] =
                          Funcs(RegisterAll(@, opt.Funcs), helperFuncs)]
            /\ pc' = [pc EXCEPT ![p] = "walk"]
            /\ loc' = [loc EXCEPT ![p].walk = 1]
    /\ UNCHANGED <<opt, templates, compiledCharset, files, pool, resp, budget,
                   nrewrites, workers>>

\* Lines 160-193: the walk reaches the next file it parses, in the set the
\* Render holds now; after the last one, or at the first error, the pass
\* ends and the deferred Unlock runs.
CompileWalk(p) ==
    /\ pc[p] = "walk" /\ Running
    /\ LET j == NextMatch(opt, loc[p].walk)
       IN  IF j = 0
           THEN /\ lock' = Unlock(lock, p)
                /\ heap' = heap
                /\ CompileEnds(p, NoErr)
           ELSE IF templates = 0
           THEN /\ lock' = Unlock(lock, p)
                /\ heap' = heap
                /\ pc' = [pc EXCEPT ![p] = "done"]
                /\ loc' = [loc EXCEPT ![p] = Ended(@, ErrNilPointer)]
           ELSE LET r == walkFn(heap[templates], opt, files, WalkEntries[j])
                IN  /\ heap' = [heap EXCEPT ![templates] =
                                  [r.ts EXCEPT !.failed = @ \/ r.err # NoErr]]
                    /\ IF r.err # NoErr \/ NextMatch(opt, j + 1) = 0
                       THEN /\ lock' = Unlock(lock, p)
                            /\ CompileEnds(p, r.err)
                       ELSE /\ lock' = lock
                            /\ pc' = pc
                            /\ loc' = [loc EXCEPT ![p].walk = j + 1]
    /\ UNCHANGED <<opt, templates, compiledCharset, files, pool, resp, budget,
                   nrewrites, workers>>


\* Lines 290-296: (RLock again after a compile,) the held set taken, the
\* call's functions registered on it, RUnlock.  Registering on a nil set
\* panics with the read lock still held.
HTMLTake(p) ==
    /\ pc[p] \in {"take", "rlock"} /\ Running
    /\ pc[p] = "rlock" => CanRLock(lock)
    /\ LET held == IF pc[p] = "rlock" THEN RLock(lock, p) ELSE lock
           register == DOMAIN loc[p].o.Funcs # {}
       IN  IF register /\ templates = 0
           THEN /\ lock' = held
                /\ heap' = heap
                /\ pc' = [pc EXCEPT ![p] = "done"]
                /\ loc' = [loc EXCEPT ![p] = Ended(@, ErrNilPointer)]
           ELSE /\ lock' = RUnlock(held, p)
                /\ heap' = IF register
                           THEN [heap EXCEPT ![templates] = Funcs(@, loc[p].o.Funcs)]
                           ELSE heap
                /\ pc' = [pc EXCEPT ![p] = "layout"]
                /\ loc' = [loc EXCEPT ![p].templates = templates]
    /\ UNCHANGED <<opt, templates, compiledCharset, files, pool, resp, budget,
                   nrewrites, workers>>

\* ExecName with the layout substituted whether or not the page is found.
ExecName_NoFoundCheck(ts, name, layout) ==
    IF layout # "" THEN layout ELSE name

\* The name HTML executes (lines 298-303): the layout when the page is found
\* and a layout is in effect, else the requested name.
ExecName(ts, name, layout) ==
    IF Lookup(ts, name) /\ layout # "" THEN layout ELSE name

\* The set after lines 298-303: the layout callbacks registered through the
\* found page template.
WithLayoutFuncs(ts, name, binding, layout) ==
    IF Lookup(ts, name) /\ layout # ""
    THEN Funcs(ts, layoutFuncs(name, binding))
    ELSE ts

\* Lines 298-303, for the call's name and binding.  Lookup on a nil set
\* panics.
HTMLLayout(p, name, binding) ==
    /\ pc[p] = "layout" /\ Running
    /\ LET t == loc[p].templates
       IN  IF t = 0
           THEN /\ heap' = heap
                /\ pc' = [pc EXCEPT ![p] = "done"]
                /\ loc' = [loc EXCEPT ![p] =
                              Ended([@ EXCEPT !.name = name, !.binding = binding],
                                    ErrNilPointer)]
           ELSE /\ heap' = [heap EXCEPT ![t] =
                              WithLayoutFuncs(@, name, binding, loc[p].o.Layout)]
                /\ pc' = [pc EXCEPT ![p] = "render"]
                /\ loc' = [loc EXCEPT ![p].name = name, ![p].binding = binding,
                                      ![p].ename =
                                          ExecName(heap[t], name, loc[p].o.Layout)]
    /\ UNCHANGED <<opt, lock, templates, compiledCharset, files, pool, resp, budget,
                   nrewrites, workers>>

\* The layout callback the set's function table holds.
CallbackInUse(ts) ==
    IF "yield" \in DOMAIN ts.funcs THEN ts.funcs["yield"] ELSE FuncVal("", "", "")

\* What executing name yields when the layout callbacks are the ones of the
\* page and the data given: the layout around the page's own output.
ExecutedWithCallbacksOf(ts, name, page, binding, o) ==
    ExecuteTemplate(Funcs(ts, layoutFuncs(page, binding)), name, binding, o)

\* HTML.Render, part_001 lines 38-45: a buffer from the pool, the template
\* executed into it.  (cb and expected are not variables of the code: the
\* callbacks the execution found registered, and the output with the
\* call's own callbacks.)
HTMLRender(p) ==
    /\ pc[p] = "render" /\ Running
    /\ pool' = pool + 1
    /\ loc' = [loc EXCEPT ![p].gets = @ + 1,
                          ![p].executed = TRUE,
                          ![p].cb = CallbackInUse(heap[loc[p].templates]),
                          ![p].expected =
                              ExecutedWithCallbacksOf(heap[loc[p].templates], loc[p].ename,
                                                      loc[p].name, loc[p].binding, opt).out,
                          ![p].exec = ExecuteTemplate(heap[loc[p].templates],
                                                      loc[p].ename, loc[p].binding, opt)]
    /\ pc' = [pc EXCEPT ![p] = "finish"]
    /\ UNCHANGED <<opt, lock, templates, compiledCharset, heap, files, resp, budget,
                   nrewrites, workers>>

\* EngineWrites with the head and the buffer written whatever the execution
\* returned.
EngineWrites_FlushOnError(l, ctype) ==
    (IF l.w = "ResponseWriter" THEN HeadWrite(ctype, l.status) ELSE <<>>)
    \o <<EvBody(l.exec.out)>>

\* What HTML.Render writes to the destination (part_001 lines 46-55).
EngineWrites(l, ctype) ==
    IF l.exec.err # NoErr THEN <<>>
    ELSE (IF l.w = "ResponseWriter" THEN HeadWrite(ctype, l.status) ELSE <<>>)
         \o <<EvBody(l.exec.out)>>

\* ErrorWrites with DisableHTTPErrorRendering ignored.
ErrorWrites_IgnoreDisable(o, w, err) ==
    IF err # NoErr /\ w = "ResponseWriter"
    THEN HttpError(err, StatusInternalServerError)
    ELSE <<>>

\* What Render.Render adds on an error of the engine (part_000 lines 265-267).
ErrorWrites(o, w, err) ==
    IF err # NoErr /\ ~o.DisableHTTPErrorRendering /\ w = "ResponseWriter"
    THEN HttpError(err, StatusInternalServerError)
    ELSE <<>>

\* What Render.Render returns (part_000 line 268).
RenderReturns(err) == err

\* PutsOnReturn with the Put skipped on the error return.
PutsOnReturn_NotOnError(l) == IF l.exec.err # NoErr THEN 0 ELSE l.gets

\* The buffers HTML.Render puts back when it returns (the deferred Put).
PutsOnReturn(l) == l.gets

\* The rest of HTML.Render and of Render.Render, for the destination w: on
\* an error nothing of the buffer is written and Render.Render may write a
\* 500; on success the head and the body are written.  The deferred Put
\* returns the buffer.
HTMLFinish(p, w) ==
    /\ pc[p] = "finish" /\ Running
    /\ resp' = [resp EXCEPT ![p] =
                  @ \o EngineWrites([loc[p] EXCEPT !.w = w],
                                    opt.HTMLContentType \o compiledCharset)
                    \o ErrorWrites(opt, w, loc[p].exec.err)]
    /\ pool' = pool - PutsOnReturn(loc[p])
    /\ loc' = [loc EXCEPT ![p] = [Ended(@, RenderReturns(loc[p].exec.err))
                                     EXCEPT !.w = w, !.puts = @ + PutsOnReturn(loc[p])]]
    /\ pc' = [pc EXCEPT ![p] = "done"]
    /\ UNCHANGED <<opt, lock, templates, compiledCharset, heap, files, budget,
                   nrewrites, workers>>

\* TemplateLookup (lines 199-203); on a nil set Lookup panics and the
\* deferred RUnlock runs.
TemplateLookup(p, t) ==
    /\ Idle(p)
    /\ CanRLock(lock)
    /\ lock' = RUnlock(RLock(lock, p), p)
    /\ loc' = [loc EXCEPT ![p] =
                 IF templates = 0
                 THEN Ended([IdleLoc EXCEPT !.op = "TemplateLookup", !.name = t],
                            ErrNilPointer)
                 ELSE [IdleLoc EXCEPT !.op = "TemplateLookup", !.name = t,
                                      !.templates = templates,
                                      !.found = Lookup(heap[templates], t)]]
    /\ pc' = [pc EXCEPT ![p] = "done"]
    /\ budget' = budget - 1
    /\ UNCHANGED <<opt, templates, compiledCharset, heap, files, pool, resp,
                   nrewrites, workers>>

\* The caller has the operation's result; the worker is free again.
Return(p) ==
    /\ pc[p] = "done"
    /\ pc' = [pc EXCEPT ![p] = "idle"]
    /\ loc' = [loc EXCEPT ![p] = IdleLoc]
    /\ resp' = [resp EXCEPT ![p] = <<>>]
    /\ heap' = Collect(heap, templates, loc')
    /\ UNCHANGED <<opt, lock, templates, compiledCharset, files, pool, budget,
                   nrewrites, workers>>

\* A template file is rewritten on disk, between two operations.
Rewrite(path, version) ==
    /\ nrewrites < MaxRewrites
    /\ \A q \in Procs : pc[q] = "idle"
    /\ version # files[path]
    /\ files' = [files EXCEPT ![path] = version]
    /\ nrewrites' = nrewrites + 1
    /\ UNCHANGED <<opt, lock, templates, compiledCharset, heap, pool, pc, loc, resp,
                   budget, workers>>

----------------------------------------------------------------------------
(* Specifications.                                                          *)

\* The Options values New is given.
UserOptions ==
    {[ZeroOptions EXCEPT !.IsDevelopment = dev, !.UseMutexLock = mu,
                         !.RequirePartials = rp, !.RenderPartialsWithoutPrefix = wp,
                         !.DisableHTTPErrorRendering = de, !.Layout = la, !.Funcs = fu] :
        dev \in BOOLEAN, mu \in BOOLEAN, rp \in BOOLEAN, wp \in BOOLEAN,
        de \in BOOLEAN, la \in {"", "layout"}, fu \in {<<>>, <<BaseFuncMap>>}}

\* New(o) for some o of O; n goroutines are about to start up to calls
\* operations between them.
InitWith(O, n, calls) ==
    /\ \E o \in O :
          /\ opt = prepareOptions(o)
          /\ compiledCharset = prepareCharset(o)
          /\ lock = NewLock(prepareLock(o))
    /\ templates = 0
    /\ heap = <<>>
    /\ files = InitialFiles
    /\ pool = 0
    /\ pc = [p \in Procs |-> "idle"]
    /\ loc = [p \in Procs |-> IdleLoc]
    /\ resp = [p \in Procs |-> <<>>]
    /\ budget = calls
    /\ nrewrites = 0
    /\ workers = n

\* The Options of the Renders concurrent workers call into.
ConcurrentOptions ==
    {[ZeroOptions EXCEPT !.IsDevelopment = dev, !.UseMutexLock = mu] :
        dev \in BOOLEAN, mu \in BOOLEAN}

\* The Options that decide the Content-Type header.
HeaderOptions ==
    {[ZeroOptions EXCEPT !.DisableCharset = dc, !.Charset = cs, !.HTMLContentType = ct] :
        dc \in BOOLEAN, cs \in {"", "ISO-8859-1"}, ct \in {"", "application/xhtml+xml"}}

Init == InitWith(ConcurrentOptions, NumProcs, MaxCalls)

InitHead == InitWith(HeaderOptions, 1, MaxSeqCalls)

InitSeq == InitWith(UserOptions, 1, MaxSeqCalls)

Next ==
    \/ \E p \in Procs, htmlOpt \in HTMLOptionsArgs : HTMLStart(p, htmlOpt)
    \/ \E p \in Procs : HTMLDiscard(p)
    \/ \E p \in Procs : HTMLCheck(p)
    \/ \E p \in Procs : HTMLAppend(p)
    \/ \E p \in Procs : CompileStart(p)
    \/ \E p \in Procs : CompileNew(p)
    \/ \E p \in Procs : CompileLock(p)
    \/ \E p \in Procs : CompileWalk(p)
    \/ \E p \in Procs : HTMLTake(p)
    \/ \E p \in Procs, name \in PageNames, binding \in Bindings :
          HTMLLayout(p, name, binding)
    \/ \E p \in Procs : HTMLRender(p)
    \/ \E p \in Procs, w \in Writers : HTMLFinish(p, w)
    \/ \E p \in Procs, t \in LookupNames : TemplateLookup(p, t)
    \/ \E p \in Procs : Return(p)
    \/ \E path \in FilePaths : \E version \in Versions(path) : Rewrite(path, version)

\* NumProcs workers call into one Render concurrently.
Spec == Init /\ [][Next]_vars

\* One worker makes its calls one after the other, for every Options value.
SpecSeq == InitSeq /\ [][Next]_vars

\* One worker, for every setting of the content type and the charset.
SpecHead == InitHead /\ [][Next]_vars

----------------------------------------------------------------------------
(* Properties.                                                              *)

Finished(p) == pc[p] = "done"

\* The call of worker p executed its layout in place of the page it names.
LayoutSubstituted(p) == loc[p].executed /\ loc[p].ename # loc[p].name

\* C1: after a compile pass that stopped at a parse error, no template of
\* that pass is usable: TemplateLookup on the set it left finds nothing and
\* an HTML call that executes on it renders no page.
C1_FailedCompileLeavesNothingUsable ==
    \A p \in Procs :
        (Finished(p) /\ loc[p].templates # 0 /\ heap[loc[p].templates].failed) =>
            /\ loc[p].op = "TemplateLookup" => ~loc[p].found
            /\ (loc[p].op = "HTML" /\ loc[p].executed) => loc[p].exec.err # NoErr

\* C2: the layout callbacks a call's execution finds registered are the
\* ones bound to that call's own page name and data, whatever other calls
\* do meanwhile.
C2_CallbacksAreTheCallsOwn ==
    \A p \in Procs :
        LayoutSubstituted(p) =>
            loc[p].cb = FuncVal("layout", loc[p].name, loc[p].binding)

\* C3: the Render's lock is the real RWMutex exactly when IsDevelopment or
\* UseMutexLock is set, and the no-op emptyLock (which nobody ever holds)
\* exactly when both are false.
C3_LockSelection ==
    /\ lock.kind = "RWMutex" <=> (opt.IsDevelopment \/ opt.UseMutexLock)
    /\ lock.kind = "emptyLock" <=> (~opt.IsDevelopment /\ ~opt.UseMutexLock)
    /\ lock.kind = "emptyLock" =>
          (lock.writer = 0 /\ \A q \in Procs : lock.readers[q] = 0)

\* C3's case: development mode without the override, the real lock held by
\* a compile pass.
C3_DevelopmentForcesRealLock ==
    /\ opt.IsDevelopment /\ ~opt.UseMutexLock
    /\ lock.kind = "RWMutex" /\ lock.writer # 0

\* C4: no step of an HTML call that was given an HTMLOptions value changes
\* the Render's Options (Layout and Funcs among them).
C4_OverridesLeaveOptions ==
    [][\A p \in Procs :
          (loc[p].op = "HTML" /\ loc[p].htmlOpt.given /\ pc'[p] # pc[p]) => opt' = opt]_vars

\* C5: a render takes one buffer from the pool and has put it back exactly
\* once when it returns, after an execution error as after a success; the
\* buffers out of the pool are those of the renders in progress, none once
\* every call has returned.
C5_BufferReturnedOnce ==
    /\ \A p \in Procs : loc[p].gets <= 1 /\ loc[p].puts <= loc[p].gets
    /\ \A p \in Procs :
          (Finished(p) /\ loc[p].executed) => (loc[p].gets = 1 /\ loc[p].puts = 1)
    /\ \A p \in Procs : pc[p] \in {"done", "idle"} => loc[p].puts = loc[p].gets
    /\ pool = Cardinality({p \in Procs : loc[p].gets > loc[p].puts})
    /\ (\A p \in Procs : pc[p] = "idle") => pool = 0

\* C5's case: a render whose execution failed has returned, its buffer is
\* back.
C5_BufferBackAfterError ==
    \E p \in Procs :
        /\ Finished(p) /\ loc[p].executed /\ loc[p].exec.err # NoErr
        /\ loc[p].gets = 1 /\ loc[p].puts = 1 /\ pool = 0

\* The partial calls a worker's execution made.
PartialCalls(p) ==
    IF loc[p].executed
    THEN {loc[p].exec.plog[i] : i \in 1..Len(loc[p].exec.plog)}
    ELSE {}

\* C6: without RequirePartials, partial(X) in the layout of page P executes
\* "X-P" if the set has it; else, with RenderPartialsWithoutPrefix, "X" if
\* the set has it; else it executes nothing and returns empty markup and no
\* error.
C6_NonStrictPartialOrder ==
    ~opt.RequirePartials =>
        \A p \in Procs : \A e \in PartialCalls(p) :
            LET ts == heap[loc[p].templates]
                full == FullPartialName(e.partial, loc[p].name)
            IN  IF Lookup(ts, full) THEN e.executed = full
                ELSE IF opt.RenderPartialsWithoutPrefix /\ Lookup(ts, e.partial)
                THEN e.executed = e.partial
                ELSE e.executed = "" /\ e.err = NoErr /\ e.out = <<>>

\* C6's case: the page has no partial of its own and the bare name is
\* executed in its place.
C6_FallbackToBareName ==
    /\ ~opt.RequirePartials
    /\ \E p \in Procs : \E e \in PartialCalls(p) :
          /\ ~Lookup(heap[loc[p].templates], FullPartialName(e.partial, loc[p].name))
          /\ e.executed = e.partial
          /\ e.out = <<"FOOT">>

\* The partial calls of worker p for which the set has neither "X-P" nor "X".
MissingPartialCalls(p) ==
    {e \in PartialCalls(p) :
        /\ ~Lookup(heap[loc[p].templates], FullPartialName(e.partial, loc[p].name))
        /\ ~Lookup(heap[loc[p].templates], e.partial)}

\* C7 as claimed: with RequirePartials, a partial(X) neither name of which
\* exists executes "X-P", whatever the fallback option, and returns its
\* not-found error.
C7_StrictTriesFirstCandidate ==
    opt.RequirePartials =>
        \A p \in Procs : \A e \in MissingPartialCalls(p) :
            /\ e.executed = FullPartialName(e.partial, loc[p].name)
            /\ e.err = ErrUndefined(e.executed)

\* C7 as amended: with RequirePartials, a partial(X) neither name of which
\* exists executes "X-P" when RenderPartialsWithoutPrefix is off and "X"
\* when it is on, and returns that name's not-found error, never empty
\* output.
C7_StrictTriesSettledName ==
    opt.RequirePartials =>
        \A p \in Procs : \A e \in MissingPartialCalls(p) :
            /\ e.executed = IF opt.RenderPartialsWithoutPrefix THEN e.partial
                            ELSE FullPartialName(e.partial, loc[p].name)
            /\ e.err = ErrUndefined(e.executed)
            /\ loc[p].exec.err = e.err

\* C7's case: strict mode, no fallback, the missing "css-home" is executed
\* and the call returns its not-found error.
C7_StrictMissingPartialFails ==
    /\ opt.RequirePartials /\ ~opt.RenderPartialsWithoutPrefix
    /\ \E p \in Procs : \E e \in MissingPartialCalls(p) :
          /\ Finished(p)
          /\ e.executed = "css-home"
          /\ loc[p].ret = ErrUndefined("css-home")

\* C8: the body an HTML call with a layout writes is the output of the
\* layout executed with yield returning the output of the call's page on
\* the call's data (and current returning the page's name).
C8_LayoutYieldIdentity ==
    \A p \in Procs :
        (Finished(p) /\ loc[p].op = "HTML" /\ LayoutSubstituted(p) /\ loc[p].ret = NoErr) =>
            \E i \in 1..Len(resp[p]) : resp[p][i] = EvBody(loc[p].expected)

\* The set was compiled from the files as they are now: every template of
\* a file that it holds parsed has the tree of the file's current content.
CompiledFromCurrentFiles(ts) ==
    \A i \in 1..Len(WalkEntries) :
        Matches(opt, WalkEntries[i]) =>
            LET rel == Rel(opt.Directory, WalkEntries[i].path)
                name == TemplateName(rel, Ext(rel))
            IN  (Lookup(ts, name) /\ ts.tmpl[name].complete) =>
                    ts.tmpl[name].tree = Source(files[WalkEntries[i].path]).body

\* C9: in development mode the set an HTML call looks up and executes in
\* was installed after the call began (never a set an earlier call left)
\* and holds the files' current contents.
C9_DevelopmentRecompiles ==
    opt.IsDevelopment =>
        \A p \in Procs :
            (loc[p].op = "HTML" /\ loc[p].templates # 0) =>
                /\ loc[p].templates > loc[p].setsAtStart
                /\ CompiledFromCurrentFiles(heap[loc[p].templates])

\* C9's case: home.tmpl was rewritten after an earlier call compiled it, and
\* the call renders the new content.
C9_RendersRewrittenFile ==
    /\ opt.IsDevelopment /\ nrewrites = 1
    /\ \E p \in Procs :
          /\ Finished(p) /\ loc[p].op = "HTML" /\ loc[p].ret = NoErr
          /\ loc[p].setsAtStart >= 1
          /\ loc[p].name = "home" /\ loc[p].ename = "home"
          /\ \E i \in 1..Len(resp[p]) : resp[p][i] = EvBody(<<"Howdy ", loc[p].binding>>)

\* The destination got a 500 and then the error's text.
Wrote500(r, err) ==
    \E i \in 1..Len(r) : \E j \in 1..Len(r) :
        /\ i < j
        /\ r[i].ev = "status" /\ r[i].n = StatusInternalServerError
        /\ r[j] = EvErrorText(err)

\* C10: an execution error is returned to the caller of HTML; a 500 with
\* the error text is written exactly when DisableHTTPErrorRendering is false
\* and the destination is an http.ResponseWriter, and otherwise nothing is
\* written.
C10_ExecutionErrorReturned ==
    \A p \in Procs :
        (Finished(p) /\ loc[p].op = "HTML" /\ loc[p].executed /\ loc[p].exec.err # NoErr) =>
            /\ loc[p].ret = loc[p].exec.err
            /\ Wrote500(resp[p], loc[p].exec.err)
                  <=> (~opt.DisableHTTPErrorRendering /\ loc[p].w = "ResponseWriter")
            /\ (opt.DisableHTTPErrorRendering \/ loc[p].w = "Writer") => resp[p] = <<>>

\* C10's case: an undefined template, error rendering on, an
\* http.ResponseWriter: the error is returned and the 500 written.
C10_ErrorRenderedAs500 ==
    \E p \in Procs :
        /\ Finished(p) /\ loc[p].w = "ResponseWriter" /\ ~opt.DisableHTTPErrorRendering
        /\ loc[p].ret = ErrUndefined("nope")
        /\ Wrote500(resp[p], ErrUndefined("nope"))

\* C11: with error rendering on and an http.ResponseWriter as destination,
\* every error an HTML call returns (an execution error, or the error of
\* the compile pass the call ran) was also written to the destination as
\* a 500 with the error's text.
C11_ReturnedErrorsRenderedAs500 ==
    \A p \in Procs :
        (/\ Finished(p) /\ loc[p].op = "HTML"
         /\ loc[p].ret # NoErr /\ loc[p].ret # ErrNilPointer
         /\ ~opt.DisableHTTPErrorRendering /\ loc[p].w = "ResponseWriter") =>
            Wrote500(resp[p], loc[p].ret)

\* The compile pass worker p ran has ended without an error.
PassSucceeded(p) ==
    /\ loc[p].compiled # 0 /\ pc[p] \notin {"lock", "walk"}
    /\ loc[p].ret # ErrNilPointer
    /\ ~heap[loc[p].compiled].failed

\* C12: after a successful compile the set holds one complete entry for
\* each file whose extension is allowed, named by its path below the
\* directory without the extension ("about", "admin/index", "home",
\* "layout"); README, notes.txt and the directory admin add no entry (the
\* only other names are the set's root and the templates the files define).
C12_NamedByRelativePath ==
    \A p \in Procs :
        PassSucceeded(p) =>
            LET ts == heap[loc[p].compiled]
            IN  /\ \A n \in {"about", "admin/index", "home", "layout"} :
                      Lookup(ts, n) /\ ts.tmpl[n].complete
                /\ ts.tmpl["admin/index"].tree = <<Text("Admin "), Dot>>
                /\ DOMAIN ts.tmpl \subseteq
                      {"about", "admin/index", "home", "layout",
                       "templates", "footer", "footer-home"}

\* C12's case: CompileTemplates returned nil; the file of the subdirectory is
\* there under its slash-separated name, the files not allowed are not.
C12_NestedFileCompiled ==
    \E p \in Procs :
        /\ Finished(p) /\ loc[p].op = "CompileTemplates" /\ loc[p].ret = NoErr
        /\ PassSucceeded(p)
        /\ Lookup(heap[loc[p].compiled], "admin/index")
        /\ ~Lookup(heap[loc[p].compiled], "notes")
        /\ ~Lookup(heap[loc[p].compiled], "README")

\* C13: nothing reaches the destination before the template has been
\* executed into the buffer; after a successful execution the destination
\* has the Content-Type header, then the requested status (both only when
\* it is an http.ResponseWriter), then the whole buffer; after a failed
\* execution it has neither the requested status nor any of the buffer.
C13_AllOrNothingInOrder ==
    \A p \in Procs :
        /\ (loc[p].op = "HTML" /\ ~Finished(p)) => resp[p] = <<>>
        /\ (Finished(p) /\ loc[p].op = "HTML" /\ loc[p].executed) =>
              IF loc[p].exec.err = NoErr
              THEN resp[p] =
                     (IF loc[p].w = "ResponseWriter"
                      THEN <<EvHeader(opt.HTMLContentType \o compiledCharset),
                             EvStatus(loc[p].status)>>
                      ELSE <<>>)
                     \o <<EvBody(loc[p].exec.out)>>
              ELSE \A i \in 1..Len(resp[p]) :
                      /\ resp[p][i] # EvStatus(loc[p].status)
                      /\ resp[p][i].ev # "body"

\* C13's case: the execution failed after part of the layout had been
\* rendered into the buffer; the http.ResponseWriter got none of it.
C13_PartialOutputDropped ==
    \E p \in Procs :
        /\ Finished(p) /\ loc[p].op = "HTML" /\ loc[p].w = "ResponseWriter"
        /\ loc[p].exec.err # NoErr /\ loc[p].exec.out # <<>>
        /\ \A i \in 1..Len(resp[p]) : resp[p][i].ev # "body"

\* C14: an HTML call executes the layout's name exactly when the set has
\* the requested name and the effective layout is not empty; when the set
\* has not the requested name, it executes that very name, layout
\* configured or not, and returns the engine's not-defined error for it.
C14_LayoutBehindFoundCheck ==
    \A p \in Procs :
        (loc[p].op = "HTML" /\ loc[p].executed) =>
            LET ts == heap[loc[p].templates]
            IN  IF Lookup(ts, loc[p].name)
                THEN loc[p].ename = IF loc[p].o.Layout # "" THEN loc[p].o.Layout
                                    ELSE loc[p].name
                ELSE /\ loc[p].ename = loc[p].name
                     /\ loc[p].exec.err = ErrUndefined(loc[p].name)
                     /\ loc[p].exec.out = <<>>
                     /\ Finished(p) => loc[p].ret = ErrUndefined(loc[p].name)

\* C14's case: a layout is in effect, the page "nope" is not in the set, and
\* the call has returned the not-defined error of "nope".
C14_MissingPageNotWrapped ==
    \E p \in Procs :
        /\ Finished(p) /\ loc[p].op = "HTML" /\ loc[p].executed
        /\ loc[p].o.Layout = "layout" /\ Lookup(heap[loc[p].templates], "layout")
        /\ loc[p].name = "nope" /\ loc[p].ename = "nope"
        /\ loc[p].ret = ErrUndefined("nope")

\* The Content-Type header of worker p's response.
ContentTypeSent(p) == resp[p][1].s

\* C15: the Content-Type header of a successful HTML render is the
\* configured HTML content type alone when DisableCharset is set, and the
\* content type followed by "; charset=" and the charset otherwise:
\* "text/html; charset=UTF-8" with both left at their defaults.
C15_ContentTypeHeader ==
    \A p \in Procs :
        (/\ Finished(p) /\ loc[p].op = "HTML" /\ loc[p].executed
         /\ loc[p].ret = NoErr /\ loc[p].w = "ResponseWriter") =>
            /\ resp[p][1].ev = "header"
            /\ opt.DisableCharset => ContentTypeSent(p) = opt.HTMLContentType
            /\ ~opt.DisableCharset =>
                  ContentTypeSent(p) = opt.HTMLContentType \o "; charset=" \o opt.Charset
            /\ (~opt.DisableCharset /\ opt.HTMLContentType = ContentHTML
                   /\ opt.Charset = defaultCharset) =>
                  ContentTypeSent(p) = "text/html; charset=UTF-8"
            /\ opt.HTMLContentType \in {"text/html", "application/xhtml+xml"}
            /\ opt.Charset \in {"UTF-8", "ISO-8859-1"}

\* C15's case: DisableCharset with a content type and a charset of the
\* caller's: the header is the content type alone.
C15_CharsetDisabled ==
    \E p \in Procs :
        /\ Finished(p) /\ loc[p].op = "HTML" /\ loc[p].ret = NoErr
        /\ loc[p].w = "ResponseWriter"
        /\ opt.DisableCharset /\ opt.Charset = "ISO-8859-1"
        /\ resp[p][1] = EvHeader("application/xhtml+xml")

\* Worker q is inside a compile pass: its fresh set is installed and the
\* walk has not ended.
PassInProgress(q) == pc[q] \in {"lock", "walk"} /\ loc[q].compiled # 0

\* C16: with the real lock, the set an HTML or TemplateLookup call has read
\* from the Render is never the set of another call's compile pass still in
\* progress (installed, and empty or partly compiled).
C16_PassHiddenFromReaders ==
    lock.kind = "RWMutex" =>
        \A p \in Procs : \A q \in Procs \ {p} :
            (/\ loc[p].op \in {"HTML", "TemplateLookup"}
             /\ loc[p].templates # 0
             /\ PassInProgress(q)) =>
                loc[p].templates # loc[q].compiled

\* C17: with the real lock, a step changes a template set (its templates
\* or its registered functions) only if the write lock is held for it.
C17_SetMutatedUnderWriteLock ==
    [][lock.kind = "RWMutex" =>
          \A i \in 1..Len(heap) :
              (heap'[i] # heap[i] /\ heap'[i] # Collected) =>
                  (lock.writer # 0 \/ lock'.writer # 0)]_vars

\* C18: with the real lock, a call that is about to append its functions
\* to Options.Funcs (lines 284-286) holds the write lock.
C18_AppendUnderWriteLock ==
    lock.kind = "RWMutex" =>
        \A p \in Procs :
            (pc[p] = "append" /\ DOMAIN loc[p].o.Funcs # {}) => lock.writer = p

\* C19: a call that has ended holds the lock no more, neither side of it;
\* once every call has returned nobody holds it.
C19_LockReleasedOnEveryExit ==
    /\ \A p \in Procs :
          pc[p] \in {"done", "idle"} => (lock.writer # p /\ lock.readers[p] = 0)
    /\ (\A p \in Procs : pc[p] = "idle") =>
          (lock.writer = 0 /\ \A p \in Procs : lock.readers[p] = 0)

\* C20: an HTML call never goes past line 292 with a nil set: what it took
\* from the Render for lookup and execution is a template set.
C20_TakenSetNeverNil ==
    \A p \in Procs :
        (loc[p].op = "HTML" /\ pc[p] \in {"layout", "render", "finish"}) =>
            loc[p].templates # 0

\* C21: outside development mode, once the Render holds a set, a step
\* replaces it (or drops it) only as part of an explicit CompileTemplates
\* call: no step of an HTML call, with or without HTMLOptions, does.
C21_HeldSetKeptByHTML ==
    [][(~opt.IsDevelopment /\ templates # 0 /\ templates' # templates) =>
          \E p \in Procs :
              loc[p].op = "CompileTemplates" /\ pc[p] = "new" /\ pc'[p] = "lock"]_vars

\* C21's case: outside development mode an HTML call given HTMLOptions, made
\* when a set was already held, has rendered from that very set without
\* compiling, and the Render still holds it.
C21_LaterCallReusesSet ==
    /\ ~opt.IsDevelopment
    /\ \E p \in Procs :
          /\ Finished(p) /\ loc[p].op = "HTML" /\ loc[p].htmlOpt.given
          /\ loc[p].ret = NoErr
          /\ loc[p].setsAtStart >= 1 /\ loc[p].compiled = 0
          /\ loc[p].templates = templates /\ templates <= loc[p].setsAtStart

\* C22: no step of an HTML call that was given no HTMLOptions changes the
\* Render's Options, Options.Funcs among them.
C22_PlainCallsLeaveOptions ==
    [][\A p \in Procs :
          (loc[p].op = "HTML" /\ ~loc[p].htmlOpt.given /\ pc'[p] # pc[p]) => opt' = opt]_vars

====
